---- MODULE Spec2Model ----
(***************************************************************************)
(* Snippet extraction (snippet-extractor/python_src/extractor.py).         *)
(*                                                                         *)
(* A text is a sequence of one-character strings.  The classes of          *)
(* extractor.py are modelled with the methods they inherit from            *)
(* langchain.text_splitter.TextSplitter (_merge_splits, _join_docs, the    *)
(* constructor check) and the collaborators they call (nltk sent_tokenize, *)
(* RecursiveCharacterTextSplitter, the tokenizer's token count).           *)
(***************************************************************************)
EXTENDS Integers, Sequences, FiniteSets, TLC

\* ------------------------------------------------------------------ bounds
MaxLen == 4
MaxChunk == 3
MaxHard == 3

\* ------------------------------------------------------------------- texts
NL == "\n"
Chars == {"a", ".", " ", NL}
Whitespace == {" ", NL}

Documents == UNION {[1..n -> Chars] : n \in 0..MaxLen}

\* The documents of the concurrent specification.
ConcDocuments ==
    { <<>>, <<"a", ".">>, <<"a", " ", "a">>, <<"a", ".", " ", "a">>,
      <<".", " ", "a", "a">> }

RECURSIVE lstrip(_)
lstrip(s) ==
    IF s = <<>> \/ s[1] \notin Whitespace THEN s ELSE lstrip(Tail(s))

RECURSIVE rstrip(_)
rstrip(s) ==
    IF s = <<>> \/ s[Len(s)] \notin Whitespace
    THEN s
    ELSE rstrip(SubSeq(s, 1, Len(s) - 1))

\* str.strip()
strip(s) == lstrip(rstrip(s))

RECURSIVE Concat(_)
Concat(ss) == IF ss = <<>> THEN <<>> ELSE ss[1] \o Concat(Tail(ss))

\* separator.join(docs)
RECURSIVE Join(_, _)
Join(docs, separator) ==
    IF docs = <<>> THEN <<>>
    ELSE IF Len(docs) = 1 THEN docs[1]
    ELSE docs[1] \o separator \o Join(Tail(docs), separator)

\* ----------------------------------------------------------- the tokenizer
\* tokenizer_file names the vocabulary PreTrainedTokenizerFast loads; a file
\* that cannot be loaded makes the constructor raise.
MissingFile == "missing.json"
TokenizerFiles == {"word.json", "char.json", MissingFile}

\* token_len = lambda s: len(tokenizer(s).input_ids): whitespace separates
\* words and yields no token; with the word vocabulary a run of letters is
\* one token and a period is one token, with the character vocabulary every
\* non-blank character is one token.
token_len(tokenizer, s) ==
    IF tokenizer = "char.json"
    THEN Cardinality({i \in 1..Len(s) : s[i] \notin Whitespace})
    ELSE Cardinality({i \in 1..Len(s) :
            \/ s[i] = "."
            \/ s[i] = "a" /\ (i = 1 \/ s[i - 1] # "a")})

\* ------------------------------------------------- nltk.tokenize.sent_tokenize
Languages == {"german"}

\* A period ends a sentence when whitespace and then another token follow.
IsSentBreak(text, i) ==
    /\ text[i] = "."
    /\ i < Len(text)
    /\ text[i + 1] \in Whitespace
    /\ \E j \in (i + 2)..Len(text) : text[j] \notin Whitespace

Min(S) == CHOOSE x \in S : \A y \in S : x <= y

\* The next sentence starts after the whitespace.
NextTok(text, i) == Min({j \in (i + 1)..Len(text) : text[j] \notin Whitespace})

RECURSIVE SentencesFrom(_, _)
SentencesFrom(text, last_break) ==
    LET breaks == {i \in last_break..Len(text) : IsSentBreak(text, i)}
        rest == SubSeq(text, last_break, Len(rstrip(text)))
    IN  IF breaks = {}
        THEN IF rest = <<>> THEN <<>> ELSE <<rest>>
        ELSE <<SubSeq(text, last_break, Min(breaks))>>
                \o SentencesFrom(text, NextTok(text, Min(breaks)))

sent_tokenize(text, language) == SentencesFrom(text, 1)

\* --------------------------------------- langchain.text_splitter.TextSplitter
\* TextSplitter.__init__ raises ValueError when chunk_overlap > chunk_size.
TextSplitterAccepts(chunk_size, chunk_overlap) == ~(chunk_overlap > chunk_size)

\* _join_docs: join, strip, None (here the empty text) when nothing is left.
JoinDocs(docs, separator) == strip(Join(docs, separator))

\* Mutant of PopLoop: the window is emptied whatever chunk_overlap is.
PopLoopEmptiesWindow(cur, total, len, sepLen, chunk_size, chunk_overlap, tok) ==
    [cur |-> <<>>, total |-> 0]

\* The while loop of _merge_splits that pops the window's head.
RECURSIVE PopLoop(_, _, _, _, _, _, _)
PopLoop(cur, total, len, sepLen, chunk_size, chunk_overlap, tok) ==
    IF /\ cur # <<>>
       /\ \/ total > chunk_overlap
          \/ /\ total + len + (IF Len(cur) > 0 THEN sepLen ELSE 0) > chunk_size
             /\ total > 0
    THEN PopLoop(Tail(cur),
                 total - (token_len(tok, cur[1])
                            + (IF Len(cur) > 1 THEN sepLen ELSE 0)),
                 len, sepLen, chunk_size, chunk_overlap, tok)
    ELSE [cur |-> cur, total |-> total]

\* One iteration of `for d in splits` of _merge_splits.
MergeStep(st, d, separator, chunk_size, chunk_overlap, tok) ==
    LET len == token_len(tok, d)
        sepLen == token_len(tok, separator)
        over == st.total + len + (IF Len(st.cur) > 0 THEN sepLen ELSE 0)
                    > chunk_size
        close == over /\ Len(st.cur) > 0
        doc == JoinDocs(st.cur, separator)
        docs1 == IF close /\ doc # <<>> THEN Append(st.docs, doc) ELSE st.docs
        p == IF close
             THEN PopLoop(st.cur, st.total, len, sepLen,
                          chunk_size, chunk_overlap, tok)
             ELSE [cur |-> st.cur, total |-> st.total]
        cur2 == Append(p.cur, d)
    IN  [docs |-> docs1,
         cur |-> cur2,
         total |-> p.total + len + (IF Len(cur2) > 1 THEN sepLen ELSE 0)]

RECURSIVE MergeLoop(_, _, _, _, _, _)
MergeLoop(st, splits, separator, chunk_size, chunk_overlap, tok) ==
    IF splits = <<>> THEN st
    ELSE MergeLoop(MergeStep(st, splits[1], separator,
                             chunk_size, chunk_overlap, tok),
                   Tail(splits), separator, chunk_size, chunk_overlap, tok)

\* TextSplitter._merge_splits
MergeSplits(splits, separator, chunk_size, chunk_overlap, tok) ==
    LET st == MergeLoop([docs |-> <<>>, cur |-> <<>>, total |-> 0],
                        splits, separator, chunk_size, chunk_overlap, tok)
        doc == JoinDocs(st.cur, separator)
    IN  IF doc # <<>> THEN Append(st.docs, doc) ELSE st.docs

\* ------------------- langchain.text_splitter.RecursiveCharacterTextSplitter
DefaultSeparators == << <<NL, NL>>, <<NL>>, <<" ">>, <<>> >>

\* The first position >= from where sep occurs in text, 0 when there is none.
Find(text, sep, from) ==
    LET hits == {i \in from..(Len(text) - Len(sep) + 1) :
                    SubSeq(text, i, i + Len(sep) - 1) = sep}
    IN  IF hits = {} THEN 0 ELSE Min(hits)

\* re.split(f"({separator})", text) regrouped: the text before the first
\* separator, then each separator with the text that follows it.
RECURSIVE SplitKeep(_, _, _)
SplitKeep(text, sep, from) ==
    LET first == Find(text, sep, from)
        next == IF first = 0 THEN 0 ELSE Find(text, sep, first + Len(sep))
    IN  IF first = 0 THEN <<>>
        ELSE IF next = 0 THEN <<SubSeq(text, first, Len(text))>>
        ELSE <<SubSeq(text, first, next - 1)>> \o SplitKeep(text, sep, next)

\* Mutant of split_text_with_regex: the separators are not kept
\* (keep_separator=False, text.split(separator)).
split_text_without_separator(text, separator) ==
    IF separator = <<>>
    THEN [i \in 1..Len(text) |-> <<text[i]>>]
    ELSE LET first == Find(text, separator, 1)
             head == IF first = 0 THEN text ELSE SubSeq(text, 1, first - 1)
             kept == SplitKeep(text, separator, 1)
             bare == [j \in 1..Len(kept) |->
                        SubSeq(kept[j], Len(separator) + 1, Len(kept[j]))]
         IN  SelectSeq(<<head>> \o bare, LAMBDA f : f # <<>>)

\* _split_text_with_regex(text, separator, keep_separator=True)
split_text_with_regex(text, separator) ==
    IF separator = <<>>
    THEN [i \in 1..Len(text) |-> <<text[i]>>]
    ELSE LET first == Find(text, separator, 1)
             head == IF first = 0 THEN text ELSE SubSeq(text, 1, first - 1)
         IN  (IF head = <<>> THEN <<>> ELSE <<head>>)
                \o SplitKeep(text, separator, 1)

\* The index in separators of the separator _split_text uses.
SeparatorIndex(text, separators) ==
    LET usable == {i \in 1..Len(separators) :
                     separators[i] = <<>> \/ Find(text, separators[i], 1) # 0}
    IN  IF usable = {} THEN Len(separators) ELSE Min(usable)

RECURSIVE RecursiveSplitText(_, _, _, _, _)
RECURSIVE RecursiveSplitLoop(_, _, _, _, _, _, _, _)

\* The loop `for s in splits` of _split_text and the flush after it.
RecursiveSplitLoop(splits, good, final, new_separators, chunk_size, chunk_overlap, tok, i) ==
    LET flushed == IF good # <<>>
                   THEN final \o MergeSplits(good, <<>>, chunk_size,
                                             chunk_overlap, tok)
                   ELSE final
    IN  IF i > Len(splits) THEN flushed
        ELSE IF token_len(tok, splits[i]) < chunk_size
        THEN RecursiveSplitLoop(splits, Append(good, splits[i]), final,
                                new_separators, chunk_size, chunk_overlap,
                                tok, i + 1)
        ELSE RecursiveSplitLoop(
                splits, <<>>,
                IF new_separators = <<>>
                THEN Append(flushed, splits[i])
                ELSE flushed \o RecursiveSplitText(splits[i], new_separators,
                                                   chunk_size, chunk_overlap,
                                                   tok),
                new_separators, chunk_size, chunk_overlap, tok, i + 1)

\* RecursiveCharacterTextSplitter._split_text(text, separators)
RecursiveSplitText(text, separators, chunk_size, chunk_overlap, tok) ==
    LET k == SeparatorIndex(text, separators)
        separator == separators[k]
        new_separators ==
            IF separator = <<>> \/ Find(text, separator, 1) = 0
            THEN <<>>
            ELSE SubSeq(separators, k + 1, Len(separators))
    IN  RecursiveSplitLoop(split_text_with_regex(text, separator), <<>>, <<>>,
                           new_separators, chunk_size, chunk_overlap, tok, 1)

\* ------------------------------------------------------------ extractor.py
\* Mutant of NLTKSplitText: the sentences are returned as they come from the
\* tokenizer, without the merge (`return splits`).
NLTKSplitTextNoMerge(primary, tok, text) ==
    sent_tokenize(text, primary.language)

\* Mutant of NLTKSplitText: the text is cut at every blank instead of at the
\* sentence boundaries.
NLTKSplitTextOnBlanks(primary, tok, text) ==
    MergeSplits(split_text_with_regex(text, <<" ">>), primary.separator,
                primary.chunk_size, primary.chunk_overlap, tok)

\* NLTKTextSplitter.split_text
NLTKSplitText(primary, tok, text) ==
    MergeSplits(sent_tokenize(text, primary.language), primary.separator,
                primary.chunk_size, primary.chunk_overlap, tok)

\* The secondary's split_text: RecursiveCharacterTextSplitter.split_text
SecondarySplitText(secondary, tok, text) ==
    RecursiveSplitText(text, secondary.separators, secondary.chunk_size,
                       secondary.chunk_overlap, tok)

VARIABLES
    inst,             \* the SnippetExtractor instance, or why there is none
    tokenizer_loads,  \* how often a tokenizer file has been loaded
    calls             \* the split_text calls on the instance

vars == <<inst, tokenizer_loads, calls>>

NoSplitter == [chunk_size |-> 0, chunk_overlap |-> 0]

NoInstance(state) ==
    [state |-> state,
     tokenizer |-> MissingFile,
     primary |-> NoSplitter,
     secondary |-> NoSplitter,
     chunk_size |-> 0,
     chunk_overlap |-> 0,
     hard_chunk_size_limit |-> 0]

\* SnippetExtractor.__init__ and, through super().__init__,
\* TextSplitterWithBigChunkSplitter.__init__: the attributes of the instance.
NewInstance(language, chunk_size, hard_chunk_size_limit, tokenizer_file) ==
    [state |-> "ready",
     tokenizer |-> tokenizer_file,
     primary |-> [language |-> language,
                  separator |-> <<NL, NL>>,
                  chunk_size |-> chunk_size,
                  chunk_overlap |-> 0],
     secondary |-> [separators |-> DefaultSeparators,
                    chunk_size |-> chunk_size,
                    chunk_overlap |-> 0],
     chunk_size |-> hard_chunk_size_limit,
     chunk_overlap |-> 0,
     hard_chunk_size_limit |-> hard_chunk_size_limit]

Idle ==
    [pc |-> "idle", text |-> <<>>, main_splits |-> <<>>, i |-> 0,
     no_big_splits |-> <<>>, routed |-> <<>>, result |-> <<>>]

ChunkSizes == (0 - 1)..MaxChunk
HardLimits == (0 - 1)..MaxHard

InitCalls(ids) ==
    /\ inst = NoInstance("none")
    /\ tokenizer_loads = 0
    /\ calls = [c \in ids |-> Idle]

Init == InitCalls({1})

\* Mutant of Construct: the tokenizer file is not loaded by the constructor
\* but left to the first use, so a missing file does not stop construction.
ConstructLazyTokenizer ==
    \E language \in Languages, chunk_size \in ChunkSizes,
       hard \in HardLimits, file \in TokenizerFiles :
        /\ inst.state = "none"
        /\ TextSplitterAccepts(chunk_size, 0)
        /\ TextSplitterAccepts(hard, 0)
        /\ inst' = NewInstance(language, chunk_size, hard, file)
        /\ UNCHANGED <<tokenizer_loads, calls>>

\* SnippetExtractor(...) with a tokenizer file that loads and sizes every
\* TextSplitter.__init__ accepts.
Construct ==
    \E language \in Languages, chunk_size \in ChunkSizes,
       hard \in HardLimits, file \in TokenizerFiles :
        /\ inst.state = "none"
        /\ file # MissingFile
        /\ TextSplitterAccepts(chunk_size, 0)
        /\ TextSplitterAccepts(hard, 0)
        /\ tokenizer_loads' = tokenizer_loads + 1
        /\ inst' = NewInstance(language, chunk_size, hard, file)
        /\ UNCHANGED calls

\* SnippetExtractor(...) raising: PreTrainedTokenizerFast cannot load the
\* file, or a TextSplitter.__init__ raises ValueError.
ConstructFails ==
    \E language \in Languages, chunk_size \in ChunkSizes,
       hard \in HardLimits, file \in TokenizerFiles :
        /\ inst.state = "none"
        /\ tokenizer_loads' = tokenizer_loads + 1
        /\ \/ /\ file = MissingFile
              /\ inst' = NoInstance("tokenizer_error")
           \/ /\ file # MissingFile
              /\ ~(TextSplitterAccepts(chunk_size, 0)
                     /\ TextSplitterAccepts(hard, 0))
              /\ inst' = NoInstance("value_error")
        /\ UNCHANGED calls

\* Mutant of SplitTextPrimary: the call sets self._chunk_size to the primary's
\* chunk size while it runs the primary.
SplitTextPrimarySetsChunkSize(c, docs) ==
    \E text \in docs :
        /\ inst.state = "ready"
        /\ calls[c].pc = "idle"
        /\ calls' = [calls EXCEPT ![c] =
              [Idle EXCEPT
                 !.pc = "loop",
                 !.text = text,
                 !.main_splits = NLTKSplitText(inst.primary, inst.tokenizer, text),
                 !.i = 1]]
        /\ inst' = [inst EXCEPT !.chunk_size = inst.primary.chunk_size]
        /\ UNCHANGED tokenizer_loads

\* split_text, line 62: main_splits = self._primary.split_text(text)
SplitTextPrimary(c, docs) ==
    \E text \in docs :
        /\ inst.state = "ready"
        /\ calls[c].pc = "idle"
        /\ calls' = [calls EXCEPT ![c] =
              [Idle EXCEPT
                 !.pc = "loop",
                 !.text = text,
                 !.main_splits = NLTKSplitText(inst.primary, inst.tokenizer, text),
                 !.i = 1]]
        /\ UNCHANGED <<inst, tokenizer_loads>>

\* Mutant of ForSplit: an oversized split is removed instead of re-split (what
\* the comment on line 64 says).
ForSplitDropsBig(c) ==
    LET call == calls[c]
        split == call.main_splits[call.i]
    IN  /\ call.pc = "loop"
        /\ call.i <= Len(call.main_splits)
        /\ calls' = [calls EXCEPT ![c] =
              IF token_len(inst.tokenizer, split) > inst.hard_chunk_size_limit
              THEN [call EXCEPT !.routed = Append(@, call.i), !.i = @ + 1]
              ELSE [call EXCEPT
                      !.no_big_splits = Append(@, split),
                      !.i = @ + 1]]
        /\ UNCHANGED <<inst, tokenizer_loads>>

\* Mutant of ForSplit: the secondary's pieces are put in front of the pieces
\* collected so far (secondary_splits + no_big_splits).
ForSplitPrepends(c) ==
    LET call == calls[c]
        split == call.main_splits[call.i]
    IN  /\ call.pc = "loop"
        /\ call.i <= Len(call.main_splits)
        /\ calls' = [calls EXCEPT ![c] =
              IF token_len(inst.tokenizer, split) > inst.hard_chunk_size_limit
              THEN [call EXCEPT
                      !.no_big_splits =
                          SecondarySplitText(inst.secondary,
                                             inst.tokenizer, split) \o @,
                      !.routed = Append(@, call.i),
                      !.i = @ + 1]
              ELSE [call EXCEPT
                      !.no_big_splits = Append(@, split),
                      !.i = @ + 1]]
        /\ UNCHANGED <<inst, tokenizer_loads>>

\* Mutant of ForSplit: a split exactly at the hard limit is sent to the
\* secondary too (>= instead of >).
ForSplitRoutesAtLimit(c) ==
    LET call == calls[c]
        split == call.main_splits[call.i]
    IN  /\ call.pc = "loop"
        /\ call.i <= Len(call.main_splits)
        /\ calls' = [calls EXCEPT ![c] =
              IF token_len(inst.tokenizer, split) >= inst.hard_chunk_size_limit
              THEN [call EXCEPT
                      !.no_big_splits =
                          @ \o SecondarySplitText(inst.secondary,
                                                  inst.tokenizer, split),
                      !.routed = Append(@, call.i),
                      !.i = @ + 1]
              ELSE [call EXCEPT
                      !.no_big_splits = Append(@, split),
                      !.i = @ + 1]]
        /\ UNCHANGED <<inst, tokenizer_loads>>

\* split_text, lines 66-71: one iteration of `for split in main_splits`
ForSplit(c) ==
    LET call == calls[c]
        split == call.main_splits[call.i]
    IN  /\ call.pc = "loop"
        /\ call.i <= Len(call.main_splits)
        /\ calls' = [calls EXCEPT ![c] =
              IF token_len(inst.tokenizer, split) > inst.hard_chunk_size_limit
              THEN [call EXCEPT
                      !.no_big_splits =
                          @ \o SecondarySplitText(inst.secondary,
                                                  inst.tokenizer, split),
                      !.routed = Append(@, call.i),
                      !.i = @ + 1]
              ELSE [call EXCEPT
                      !.no_big_splits = Append(@, split),
                      !.i = @ + 1]]
        /\ UNCHANGED <<inst, tokenizer_loads>>

\* Mutant of FinalMerge: the pieces are joined into one text
\* (return ["\n".join(no_big_splits)]).
FinalMergeJoinsAll(c) ==
    LET call == calls[c]
    IN  /\ call.pc = "loop"
        /\ call.i > Len(call.main_splits)
        /\ calls' = [calls EXCEPT ![c] =
              [call EXCEPT
                 !.pc = "done",
                 !.result = <<Join(call.no_big_splits, <<NL>>)>>]]
        /\ UNCHANGED <<inst, tokenizer_loads>>

\* Mutant of FinalMerge: after the merge the call sets self._chunk_size to
\* the primary's chunk size.
FinalMergeSetsChunkSize(c) ==
    LET call == calls[c]
    IN  /\ call.pc = "loop"
        /\ call.i > Len(call.main_splits)
        /\ calls' = [calls EXCEPT ![c] =
              [call EXCEPT
                 !.pc = "done",
                 !.result = MergeSplits(call.no_big_splits, <<NL>>,
                                        inst.chunk_size, inst.chunk_overlap,
                                        inst.tokenizer)]]
        /\ inst' = [inst EXCEPT !.chunk_size = inst.primary.chunk_size]
        /\ UNCHANGED tokenizer_loads

\* split_text, line 73: return self._merge_splits(no_big_splits, "\n")
FinalMerge(c) ==
    LET call == calls[c]
    IN  /\ call.pc = "loop"
        /\ call.i > Len(call.main_splits)
        /\ calls' = [calls EXCEPT ![c] =
              [call EXCEPT
                 !.pc = "done",
                 !.result = MergeSplits(call.no_big_splits, <<NL>>,
                                        inst.chunk_size, inst.chunk_overlap,
                                        inst.tokenizer)]]
        /\ UNCHANGED <<inst, tokenizer_loads>>

\* The caller takes the result; the next call may start.
Return(c) ==
    /\ calls[c].pc = "done"
    /\ calls' = [calls EXCEPT ![c] = Idle]
    /\ UNCHANGED <<inst, tokenizer_loads>>

Next ==
    \/ Construct
    \/ ConstructFails
    \/ \E c \in DOMAIN calls : SplitTextPrimary(c, Documents)
    \/ \E c \in DOMAIN calls : ForSplit(c)
    \/ \E c \in DOMAIN calls : FinalMerge(c)
    \/ \E c \in DOMAIN calls : Return(c)

Spec == Init /\ [][Next]_vars

\* Two split_text calls interleaved on one instance.
InitConc == InitCalls({1, 2})

NextConc ==
    \/ Construct
    \/ ConstructFails
    \/ \E c \in DOMAIN calls : SplitTextPrimary(c, ConcDocuments)
    \/ \E c \in DOMAIN calls : ForSplit(c)
    \/ \E c \in DOMAIN calls : FinalMerge(c)
    \/ \E c \in DOMAIN calls : Return(c)

SpecConc == InitConc /\ [][NextConc]_vars

\* --------------------------------------------------------------- the claims
\* The characters of a text that are not whitespace, in order.
NonBlank(s) == SelectSeq(s, LAMBDA ch : ch \notin Whitespace)

Done(c) == calls[c].pc = "done"

\* lines 65-71 run to completion on main_splits[i..]
RECURSIVE NoBigSplits(_, _, _)
NoBigSplits(instance, main_splits, i) ==
    IF i > Len(main_splits) THEN <<>>
    ELSE (IF token_len(instance.tokenizer, main_splits[i])
                > instance.hard_chunk_size_limit
          THEN SecondarySplitText(instance.secondary, instance.tokenizer,
                                  main_splits[i])
          ELSE <<main_splits[i]>>)
         \o NoBigSplits(instance, main_splits, i + 1)

\* TextSplitterWithBigChunkSplitter.split_text run alone, start to end.
SplitTextAlone(instance, text) ==
    MergeSplits(NoBigSplits(instance,
                            NLTKSplitText(instance.primary,
                                          instance.tokenizer, text), 1),
                <<NL>>, instance.chunk_size, instance.chunk_overlap,
                instance.tokenizer)

\* C1 -- Size bound: every returned snippet has
\* length_function(snippet) <= hard_chunk_size_limit, for every document and
\* every configuration the constructor accepts.
SizeBound ==
    \A c \in DOMAIN calls :
        Done(c) =>
            \A k \in 1..Len(calls[c].result) :
                token_len(inst.tokenizer, calls[c].result[k])
                    <= inst.hard_chunk_size_limit

\* The size bound on the configurations of the interface contract,
\* hard_chunk_size_limit >= chunk_size >= 1.
ContractConfig ==
    /\ inst.state = "ready"
    /\ inst.primary.chunk_size >= 1
    /\ inst.hard_chunk_size_limit >= inst.primary.chunk_size

SizeBoundUnderContract == ContractConfig => SizeBound

\* C2 (as claimed) -- Coverage: concatenating the returned snippets in order
\* reproduces the document, no character dropped.
CoverageVerbatim ==
    \A c \in DOMAIN calls :
        Done(c) => Concat(calls[c].result) = calls[c].text

\* C2 (amended) -- Coverage up to whitespace: the non-whitespace characters
\* of the concatenated snippets are those of the document, in order, none
\* dropped and none added.
CoverageNonBlank ==
    \A c \in DOMAIN calls :
        Done(c) => NonBlank(Concat(calls[c].result)) = NonBlank(calls[c].text)

\* A call that re-split an oversized chunk, returned several snippets and
\* lost whitespace of the document.
CoverageWitness ==
    \E c \in DOMAIN calls :
        /\ Done(c)
        /\ ContractConfig
        /\ calls[c].routed # <<>>
        /\ Len(calls[c].result) >= 2
        /\ Concat(calls[c].result) # calls[c].text

\* C3 -- Non-emptiness: no returned snippet is the empty string, and the
\* empty document yields the empty sequence.
NonEmptiness ==
    \A c \in DOMAIN calls :
        Done(c) =>
            /\ \A k \in 1..Len(calls[c].result) : calls[c].result[k] # <<>>
            /\ calls[c].text = <<>> => calls[c].result = <<>>

\* The empty document has been extracted.
NonEmptinessWitness ==
    \E c \in DOMAIN calls :
        Done(c) /\ calls[c].text = <<>> /\ calls[c].result = <<>>

\* C4 -- Order preservation: document order is kept by the primary split, by
\* the in-place re-split of oversized chunks and by the final merge: at each
\* stage the pieces, read in index order, spell the part of the document
\* handled so far.
OrderPreserved ==
    \A c \in DOMAIN calls :
        LET call == calls[c] IN
        /\ call.pc \in {"loop", "done"} =>
              /\ NonBlank(Concat(call.main_splits)) = NonBlank(call.text)
              /\ NonBlank(Concat(call.no_big_splits))
                    = NonBlank(Concat(SubSeq(call.main_splits, 1, call.i - 1)))
        /\ call.pc = "done" =>
              NonBlank(Concat(call.result))
                    = NonBlank(Concat(call.no_big_splits))

\* A call with several primary chunks, one of them re-split after another
\* chunk had been handled, that returned different snippets.
OrderWitness ==
    \E c \in DOMAIN calls :
        /\ Done(c)
        /\ ContractConfig
        /\ Len(calls[c].main_splits) >= 2
        /\ calls[c].routed # <<>>
        /\ \A k \in 1..Len(calls[c].routed) : calls[c].routed[k] >= 2
        /\ Len(calls[c].result) >= 2
        /\ calls[c].result[1] # calls[c].result[2]

ShortDocument(c) ==
    /\ Done(c)
    /\ NonBlank(calls[c].text) # <<>>
    /\ token_len(inst.tokenizer, calls[c].text) < inst.primary.chunk_size
    /\ token_len(inst.tokenizer, calls[c].text) <= inst.hard_chunk_size_limit

OversizedSentences(c) ==
    LET sentences == sent_tokenize(calls[c].text, inst.primary.language)
    IN  {k \in 1..Len(sentences) :
            token_len(inst.tokenizer, sentences[k])
                > inst.hard_chunk_size_limit}

\* C6 -- Oversized sentence: when the document holds one sentence longer
\* than hard_chunk_size_limit, the secondary splitter is invoked and the
\* output holds at least 2 snippets, each of length <= hard_chunk_size_limit.
OversizedSentenceSplit ==
    \A c \in DOMAIN calls :
        (Done(c) /\ Cardinality(OversizedSentences(c)) = 1) =>
            /\ calls[c].routed # <<>>
            /\ Len(calls[c].result) >= 2
            /\ \A k \in 1..Len(calls[c].result) :
                  token_len(inst.tokenizer, calls[c].result[k])
                      <= inst.hard_chunk_size_limit

\* Scenario C on the configurations of the interface contract.
OversizedSentenceUnderContract == ContractConfig => OversizedSentenceSplit

ConcurrentExtraction ==
    /\ [][inst.state = "ready" => inst' = inst]_vars
    /\ [](\A c \in DOMAIN calls :
            Done(c) => calls[c].result = SplitTextAlone(inst, calls[c].text))

\* One call has finished while another, on a different document, is in its
\* loop.
ConcurrentWitness ==
    \E c1, c2 \in DOMAIN calls :
        /\ Done(c1)
        /\ calls[c2].pc = "loop"
        /\ calls[c2].i >= 2
        /\ calls[c1].text # calls[c2].text
        /\ calls[c1].routed # <<>>

\* C9 -- Invalid numeric configuration is rejected at construction: no
\* instance exists with a non-positive chunk_size or with
\* chunk_overlap >= chunk_size.
InvalidConfigRejected ==
    inst.state = "ready" =>
        /\ inst.primary.chunk_size >= 1
        /\ inst.primary.chunk_overlap < inst.primary.chunk_size
        /\ inst.secondary.chunk_overlap < inst.secondary.chunk_size

\* What the constructor does reject: a negative chunk_size or hard limit.
NegativeConfigRejected ==
    inst.state = "ready" =>
        /\ inst.primary.chunk_size >= 0
        /\ inst.hard_chunk_size_limit >= 0

\* C10 -- Tokenizer load failure: an instance exists only with its tokenizer
\* loaded; when the load fails there is no instance and no call runs; the
\* tokenizer is loaded once, at construction, never during a call.
TokenizerLoadedAtConstruction ==
    /\ inst.state = "ready" =>
          inst.tokenizer # MissingFile /\ tokenizer_loads = 1
    /\ inst.state # "ready" => \A c \in DOMAIN calls : calls[c].pc = "idle"
    /\ \A c \in DOMAIN calls : calls[c].pc # "idle" => tokenizer_loads = 1

\* Construction has failed on the tokenizer file.
TokenizerFailureWitness ==
    inst.state = "tokenizer_error" /\ tokenizer_loads = 1

\* ---- Documents that are not valid text ----

\* A code point the tokenizer cannot encode (a lone surrogate in a str).
Undecodable == "?"

InvalidDocuments ==
    { <<Undecodable>>, <<"a", Undecodable>>, <<"a", ".", " ", Undecodable>> }

Decodable(text) == \A k \in 1..Len(text) : text[k] # Undecodable

\* Mutant of SplitTextRaises: the exception is caught and an empty list is
\* returned (try: ... except Exception: return []).
SplitTextRaisesSwallowed(c) ==
    \E text \in InvalidDocuments :
        /\ inst.state = "ready"
        /\ calls[c].pc = "idle"
        /\ ~Decodable(text)
        /\ calls' = [calls EXCEPT ![c] =
              [Idle EXCEPT !.pc = "done", !.text = text]]
        /\ UNCHANGED <<inst, tokenizer_loads>>

\* split_text, line 62, on a document that is not valid text: the length
\* function raises inside self._primary.split_text(text) on the first sentence
\* it measures; split_text has no handler, so nothing is assigned and the
\* exception leaves the call.
SplitTextRaises(c) ==
    \E text \in InvalidDocuments :
        /\ inst.state = "ready"
        /\ calls[c].pc = "idle"
        /\ ~Decodable(text)
        /\ calls' = [calls EXCEPT ![c] =
              [Idle EXCEPT !.pc = "raised", !.text = text]]
        /\ UNCHANGED <<inst, tokenizer_loads>>

\* The caller receives the exception; the next call may start.
Propagate(c) ==
    /\ calls[c].pc = "raised"
    /\ calls' = [calls EXCEPT ![c] = Idle]
    /\ UNCHANGED <<inst, tokenizer_loads>>

NextInput ==
    \/ Construct
    \/ ConstructFails
    \/ \E c \in DOMAIN calls : SplitTextPrimary(c, ConcDocuments)
    \/ \E c \in DOMAIN calls : SplitTextRaises(c)
    \/ \E c \in DOMAIN calls : ForSplit(c)
    \/ \E c \in DOMAIN calls : FinalMerge(c)
    \/ \E c \in DOMAIN calls : Return(c)
    \/ \E c \in DOMAIN calls : Propagate(c)

SpecInput == InitConc /\ [][NextInput]_vars

MaxOverlap == 2
MaxSplits == 3

Overlaps == 0..MaxOverlap

\* What self._tokenizer(text) (line 38) returns: sentences, in sequences of
\* up to MaxSplits.
Sentences ==
    { <<".">>, <<"a", ".">>, <<"a", "a", ".">>, <<"a", " ", "a", ".">> }

SentenceSeqs == UNION {[1..n -> Sentences] : n \in 0..MaxSplits}

\* The documents whose pieces are handed to the final merge.
MergeDocuments == {d \in Documents : \A k \in 1..Len(d) : d[k] # NL}

\* A NLTKTextSplitter used on its own, with any overlap its constructor
\* accepts.
PrimaryAlone(language, chunk_size, chunk_overlap, tokenizer_file) ==
    [NoInstance("primary") EXCEPT
       !.tokenizer = tokenizer_file,
       !.primary = [language |-> language,
                    separator |-> <<NL, NL>>,
                    chunk_size |-> chunk_size,
                    chunk_overlap |-> chunk_overlap]]

ConstructPrimary ==
    \E language \in Languages, chunk_size \in ChunkSizes,
       chunk_overlap \in Overlaps, file \in TokenizerFiles :
        /\ inst.state = "none"
        /\ file # MissingFile
        /\ TextSplitterAccepts(chunk_size, chunk_overlap)
        /\ tokenizer_loads' = tokenizer_loads + 1
        /\ inst' = PrimaryAlone(language, chunk_size, chunk_overlap, file)
        /\ UNCHANGED calls

\* The locals of _merge_splits before its loop; site is the call site
\* ("primary": line 39, "final": line 73), windows lists, for every chunk in
\* docs, the fragments splits[first..last] it was joined from.
MergeStart(site, pass, splits, separator, chunk_size, chunk_overlap) ==
    [pc |-> "merging", site |-> site, pass |-> pass, splits |-> splits,
     separator |-> separator, chunk_size |-> chunk_size,
     chunk_overlap |-> chunk_overlap, i |-> 1, docs |-> <<>>,
     current_doc |-> <<>>, total |-> 0, windows |-> <<>>, result |-> <<>>]

\* NLTKTextSplitter.split_text, lines 38-39: the sentences enter the merge.
MergeBeginPrimary(c) ==
    \E splits \in SentenceSeqs :
        /\ inst.state \in {"ready", "primary"}
        /\ calls[c].pc = "idle"
        /\ calls' = [calls EXCEPT ![c] =
              MergeStart("primary", 1, splits, inst.primary.separator,
                         inst.primary.chunk_size, inst.primary.chunk_overlap)]
        /\ UNCHANGED <<inst, tokenizer_loads>>

\* Mutant of MergeBeginFinal: the final merge is given the primary's
\* separator, a blank line (self._merge_splits(no_big_splits, "\n\n")).
MergeBeginFinalBlankLine(c) ==
    \E text \in MergeDocuments :
        /\ inst.state = "ready"
        /\ calls[c].pc = "idle"
        /\ calls' = [calls EXCEPT ![c] =
              MergeStart("final", 1,
                         NoBigSplits(inst,
                                     NLTKSplitText(inst.primary,
                                                   inst.tokenizer, text), 1),
                         <<NL, NL>>, inst.chunk_size, inst.chunk_overlap)]
        /\ UNCHANGED <<inst, tokenizer_loads>>

\* Mutant of MergeBeginFinal: the final merge packs against the target size,
\* the primary's chunk_size, instead of the hard limit.
MergeBeginFinalTargetSize(c) ==
    \E text \in MergeDocuments :
        /\ inst.state = "ready"
        /\ calls[c].pc = "idle"
        /\ calls' = [calls EXCEPT ![c] =
              MergeStart("final", 1,
                         NoBigSplits(inst,
                                     NLTKSplitText(inst.primary,
                                                   inst.tokenizer, text), 1),
                         <<NL>>, inst.primary.chunk_size, inst.chunk_overlap)]
        /\ UNCHANGED <<inst, tokenizer_loads>>

\* split_text, lines 62-73: no_big_splits enters the final merge.
MergeBeginFinal(c) ==
    \E text \in MergeDocuments :
        /\ inst.state = "ready"
        /\ calls[c].pc = "idle"
        /\ calls' = [calls EXCEPT ![c] =
              MergeStart("final", 1,
                         NoBigSplits(inst,
                                     NLTKSplitText(inst.primary,
                                                   inst.tokenizer, text), 1),
                         <<NL>>, inst.chunk_size, inst.chunk_overlap)]
        /\ UNCHANGED <<inst, tokenizer_loads>>

\* Mutant of MergeFragment: the window is closed at every fragment, whether
\* or not the fragment would fit.
MergeFragmentAlwaysCloses(c) ==
    LET call == calls[c]
        d == call.splits[call.i]
        doc == JoinDocs(call.current_doc, call.separator)
    IN  /\ call.pc = "merging"
        /\ call.i <= Len(call.splits)
        /\ calls' = [calls EXCEPT ![c] =
              [call EXCEPT
                 !.docs = IF doc # <<>> THEN Append(@, doc) ELSE @,
                 !.current_doc = <<d>>,
                 !.total = token_len(inst.tokenizer, d),
                 !.windows =
                     IF doc # <<>>
                     THEN Append(@, [first |-> call.i - Len(call.current_doc),
                                     last |-> call.i - 1])
                     ELSE @,
                 !.i = @ + 1]]
        /\ UNCHANGED <<inst, tokenizer_loads>>

\* _merge_splits: one iteration of `for d in splits`.
MergeFragment(c) ==
    LET call == calls[c]
        d == call.splits[call.i]
        st == MergeStep([docs |-> call.docs, cur |-> call.current_doc,
                         total |-> call.total],
                        d, call.separator, call.chunk_size,
                        call.chunk_overlap, inst.tokenizer)
    IN  /\ call.pc = "merging"
        /\ call.i <= Len(call.splits)
        /\ calls' = [calls EXCEPT ![c] =
              [call EXCEPT
                 !.docs = st.docs,
                 !.current_doc = st.cur,
                 !.total = st.total,
                 !.windows =
                     IF st.docs # call.docs
                     THEN Append(@, [first |-> call.i - Len(call.current_doc),
                                     last |-> call.i - 1])
                     ELSE @,
                 !.i = @ + 1]]
        /\ UNCHANGED <<inst, tokenizer_loads>>

\* Mutant of MergeFlush: the window left after the loop is not joined
\* (return docs).
MergeFlushDropsWindow(c) ==
    LET call == calls[c]
    IN  /\ call.pc = "merging"
        /\ call.i > Len(call.splits)
        /\ calls' = [calls EXCEPT ![c] =
              [call EXCEPT !.pc = "merged", !.result = call.docs]]
        /\ UNCHANGED <<inst, tokenizer_loads>>

\* _merge_splits after the loop: the window that is left is joined and, unless
\* _join_docs returns None, appended; docs is returned.
MergeFlush(c) ==
    LET call == calls[c]
        doc == JoinDocs(call.current_doc, call.separator)
    IN  /\ call.pc = "merging"
        /\ call.i > Len(call.splits)
        /\ calls' = [calls EXCEPT ![c] =
              [call EXCEPT
                 !.pc = "merged",
                 !.windows =
                     IF doc # <<>>
                     THEN Append(@, [first |-> call.i - Len(call.current_doc),
                                     last |-> call.i - 1])
                     ELSE @,
                 !.result = IF doc # <<>> THEN Append(call.docs, doc)
                            ELSE call.docs]]
        /\ UNCHANGED <<inst, tokenizer_loads>>

\* self._merge_splits(chunks, "\n") (line 73) run on the chunks the final
\* merge has just returned.
MergeAgain(c) ==
    LET call == calls[c]
    IN  /\ call.pc = "merged"
        /\ call.site = "final"
        /\ call.pass = 1
        /\ calls' = [calls EXCEPT ![c] =
              MergeStart("final", 2, call.result, <<NL>>,
                         inst.chunk_size, inst.chunk_overlap)]
        /\ UNCHANGED <<inst, tokenizer_loads>>

MergeReturn(c) ==
    /\ calls[c].pc = "merged"
    /\ calls' = [calls EXCEPT ![c] = Idle]
    /\ UNCHANGED <<inst, tokenizer_loads>>

NextMerge ==
    \/ Construct
    \/ ConstructPrimary
    \/ \E c \in DOMAIN calls : MergeBeginPrimary(c)
    \/ \E c \in DOMAIN calls : MergeBeginFinal(c)
    \/ \E c \in DOMAIN calls : MergeFragment(c)
    \/ \E c \in DOMAIN calls : MergeFlush(c)
    \/ \E c \in DOMAIN calls : MergeAgain(c)
    \/ \E c \in DOMAIN calls : MergeReturn(c)

SpecMerge == Init /\ [][NextMerge]_vars

\* The calls that are inside _merge_splits or have just left it.
MergeCalls == {c \in DOMAIN calls : calls[c].pc \in {"merging", "merged"}}

\* The chunks a merge has emitted so far.
Chunks(call) == IF call.pc = "merged" THEN call.result ELSE call.docs

\* The fragments chunk j of a merge was joined from.
Window(call, j) ==
    SubSeq(call.splits, call.windows[j].first, call.windows[j].last)

\* The running length of a window: the fragments' lengths plus one separator
\* length between each adjacent pair.
RECURSIVE RunningLength(_, _, _)
RunningLength(frags, separator, tok) ==
    IF frags = <<>> THEN 0
    ELSE token_len(tok, frags[1])
           + (IF Len(frags) > 1 THEN token_len(tok, separator) ELSE 0)
           + RunningLength(Tail(frags), separator, tok)

LastFrags(frags, m) == SubSeq(frags, Len(frags) - m + 1, Len(frags))

IsPrefix(p, s) == Len(p) <= Len(s) /\ SubSeq(s, 1, Len(p)) = p

Max(S) == CHOOSE x \in S : \A y \in S : y <= x

\* Every chunk handed to the re-merge is within the hard limit.
Compliant(call) ==
    \A j \in 1..Len(call.splits) :
        token_len(inst.tokenizer, call.splits[j]) <= call.chunk_size

\* C12 -- Idempotence under re-merge, as stated: the re-merge pass (line 73)
\* run on chunks that are all within the hard limit returns the same chunks,
\* as many and with the same text.
ReMergeUnchanged ==
    \A c \in MergeCalls :
        (calls[c].pc = "merged" /\ calls[c].site = "final"
           /\ Compliant(calls[c])) =>
            calls[c].result = calls[c].splits

\* C12, amended -- the re-merge pass run on chunks that are all within the
\* hard limit keeps their content: every returned chunk is the trimmed join,
\* with a newline, of consecutive input chunks and is within the hard limit,
\* the non-whitespace characters are the same in the same order, and there are
\* at most as many chunks as before (adjacent chunks that fit together are
\* joined); run on its own output, the pass returns that output unchanged.
ReMergeKeepsContent ==
    \A c \in MergeCalls :
        LET call == calls[c]
        IN  (call.pc = "merged" /\ call.site = "final" /\ Compliant(call)) =>
              /\ Len(call.result) <= Len(call.splits)
              /\ Len(call.windows) = Len(call.result)
              /\ \A j \in 1..Len(call.result) :
                   /\ call.result[j] = JoinDocs(Window(call, j), <<NL>>)
                   /\ token_len(inst.tokenizer, call.result[j])
                        <= inst.hard_chunk_size_limit
              /\ NonBlank(Concat(call.result)) = NonBlank(Concat(call.splits))
              /\ call.pass = 2 => call.result = call.splits

\* A second pass over chunks of which the first pass had joined two has
\* returned them, more than one, as they were.
ReMergeWitness ==
    \E c \in MergeCalls :
        /\ calls[c].pc = "merged"
        /\ calls[c].site = "final"
        /\ calls[c].pass = 2
        /\ Compliant(calls[c])
        /\ Len(calls[c].splits) >= 2
        /\ \E k \in 1..Len(calls[c].splits[1]) : calls[c].splits[1][k] = NL
        /\ calls[c].result = calls[c].splits

\* The merges of a sentence splitter configured with an overlap.
OverlapCalls ==
    {c \in MergeCalls :
        calls[c].site = "primary" /\ calls[c].chunk_overlap > 0}

\* The largest number of trailing fragments of chunk j whose running length
\* is within chunk_overlap: the target overlap in whole fragments.
TargetCount(call, j) ==
    Max({m \in 0..Len(Window(call, j)) :
           RunningLength(LastFrags(Window(call, j), m), call.separator,
                         inst.tokenizer) <= call.chunk_overlap})

\* The largest number of trailing fragments of chunk j whose running length
\* is within chunk_overlap and which still fit into chunk_size together with
\* the fragment that closed chunk j.
FitCount(call, j) ==
    Max({m \in 0..Len(Window(call, j)) :
           LET carried == RunningLength(LastFrags(Window(call, j), m),
                                        call.separator, inst.tokenizer)
           IN  /\ carried <= call.chunk_overlap
               /\ \/ m = 0
                  \/ carried + token_len(inst.tokenizer, call.separator)
                       + token_len(inst.tokenizer,
                                   call.splits[call.windows[j].last + 1])
                       <= call.chunk_size})

\* C13 -- Overlap correctness, as stated: with chunk_overlap = k > 0, every
\* chunk after the first begins with the suffix of its predecessor of the
\* target overlap size, the largest whole number of trailing fragments within
\* k.
OverlapSuffixIsPrefix ==
    \A c \in OverlapCalls :
        LET call == calls[c]
        IN  \A j \in 1..(Len(call.windows) - 1) :
              IsPrefix(Join(LastFrags(Window(call, j), TargetCount(call, j)),
                            call.separator),
                       Chunks(call)[j + 1])

\* C13, amended -- with chunk_overlap = k > 0, every chunk after the first
\* begins with trailing fragments of its predecessor: the largest whole number
\* of them whose running length is within k and which, with the separator and
\* the next fragment, still fit into chunk_size; when the next fragment leaves
\* no room, fewer fragments than the target, or none, are repeated.
OverlapFitsOrDropped ==
    \A c \in OverlapCalls :
        LET call == calls[c]
        IN  \A j \in 1..(Len(call.windows) - 1) :
              /\ call.windows[j + 1].first =
                     call.windows[j].last - FitCount(call, j) + 1
              /\ IsPrefix(Join(LastFrags(Window(call, j), FitCount(call, j)),
                               call.separator),
                          Chunks(call)[j + 1])

\* A merge with an overlap has returned two chunks of which the second
\* repeats the last fragment of the first.
OverlapWitness ==
    \E c \in OverlapCalls :
        /\ calls[c].pc = "merged"
        /\ Len(calls[c].windows) >= 2
        /\ Len(Window(calls[c], 1)) >= 2
        /\ FitCount(calls[c], 1) >= 1
        /\ calls[c].windows[2].first = calls[c].windows[1].last

\* The calls that have run the primary and are in or past the loop of lines
\* 66-71.
RoutingCalls == {c \in DOMAIN calls : calls[c].pc \in {"loop", "done"}}

MergeSizeLimit ==
    \A c \in MergeCalls :
        LET call == calls[c]
        IN  \A j \in 1..Len(call.windows) :
              /\ Len(Window(call, j)) >= 2 =>
                     RunningLength(Window(call, j), call.separator,
                                   inst.tokenizer) <= call.chunk_size
              /\ token_len(inst.tokenizer, Chunks(call)[j]) > call.chunk_size =>
                     /\ Len(Window(call, j)) = 1
                     /\ token_len(inst.tokenizer, Window(call, j)[1])
                            > call.chunk_size

\* The merge size limit on the instances whose primary chunk_size is at
\* least 1.
MergeSizeLimitPositiveSize == (inst.primary.chunk_size >= 1) => MergeSizeLimit

\* C16 -- Greedy merge: every chunk a merge has emitted is the trimmed join of
\* the non-empty window of consecutive fragments it was closed on; a window
\* closed inside the loop is maximal, its running length plus the separator
\* and the fragment that follows it exceed chunk_size; and after the last
\* fragment the window that is left, unless its join is blank, is the final
\* chunk of the result.
GreedyMerge ==
    \A c \in MergeCalls :
        LET call == calls[c]
            sepLen == token_len(inst.tokenizer, call.separator)
        IN  /\ Len(call.windows) = Len(Chunks(call))
            /\ \A j \in 1..Len(call.windows) :
                 /\ call.windows[j].first <= call.windows[j].last
                 /\ Chunks(call)[j] = JoinDocs(Window(call, j), call.separator)
                 /\ call.windows[j].last < Len(call.splits) =>
                        RunningLength(Window(call, j), call.separator,
                                      inst.tokenizer) + sepLen
                          + token_len(inst.tokenizer,
                                      call.splits[call.windows[j].last + 1])
                          > call.chunk_size
            /\ call.current_doc =
                   SubSeq(call.splits, call.i - Len(call.current_doc),
                          call.i - 1)
            /\ call.pc = "merged" =>
                 IF JoinDocs(call.current_doc, call.separator) # <<>>
                 THEN /\ call.result =
                            Append(call.docs,
                                   JoinDocs(call.current_doc, call.separator))
                      /\ call.windows[Len(call.windows)].last = Len(call.splits)
                 ELSE call.result = call.docs

\* A merge has returned two chunks of which the first was joined from two
\* fragments and the second is the flushed window.
GreedyMergeWitness ==
    \E c \in MergeCalls :
        /\ calls[c].pc = "merged"
        /\ calls[c].chunk_overlap = 0
        /\ Len(calls[c].windows) = 2
        /\ Len(Window(calls[c], 1)) = 2
        /\ calls[c].windows[2].first = 3
        /\ calls[c].windows[2].last = Len(calls[c].splits)

\* ---- The secondary called on its own ----

\* self._secondary.split_text(split), line 68, for any text.
SecondarySplit(c) ==
    \E text \in Documents :
        /\ inst.state = "ready"
        /\ calls[c].pc = "idle"
        /\ calls' = [calls EXCEPT ![c] =
              [Idle EXCEPT
                 !.pc = "secondary",
                 !.text = text,
                 !.result = SecondarySplitText(inst.secondary,
                                               inst.tokenizer, text)]]
        /\ UNCHANGED <<inst, tokenizer_loads>>

SecondaryReturn(c) ==
    /\ calls[c].pc = "secondary"
    /\ calls' = [calls EXCEPT ![c] = Idle]
    /\ UNCHANGED <<inst, tokenizer_loads>>

NextSecondary ==
    \/ Construct
    \/ \E c \in DOMAIN calls : SecondarySplit(c)
    \/ \E c \in DOMAIN calls : SecondaryReturn(c)

SpecSecondary == Init /\ [][NextSecondary]_vars

SecondaryCalls == {c \in DOMAIN calls : calls[c].pc = "secondary"}

IsInfix(p, s) ==
    \E k \in 1..(Len(s) - Len(p) + 1) : SubSeq(s, k, k + Len(p) - 1) = p

\* The fragments the recursive splitter cuts a text into on the first
\* separator of its list that it can use.
TopFragments(secondary, text) ==
    split_text_with_regex(
        text, secondary.separators[SeparatorIndex(text, secondary.separators)])

\* C17 -- Secondary compliance: every piece the recursive character splitter
\* returns, for every text, has a length within its chunk_size.
SecondaryCompliance ==
    \A c \in SecondaryCalls :
        \A k \in 1..Len(calls[c].result) :
            token_len(inst.tokenizer, calls[c].result[k])
                <= inst.secondary.chunk_size

\* Secondary compliance on the splitters whose chunk_size is at least 1.
SecondaryCompliancePositiveSize ==
    (inst.secondary.chunk_size >= 1) => SecondaryCompliance

\* C19 -- Recursive splitter edge cases: for the empty text the recursive
\* character splitter returns no chunk at all, and a fragment whose length is
\* exactly chunk_size is accepted as it is: its text, trimmed, is found whole
\* inside one returned piece.
RecursiveEdgeCases ==
    \A c \in SecondaryCalls :
        LET call == calls[c]
            frags == TopFragments(inst.secondary, call.text)
        IN  /\ call.text = <<>> => call.result = <<>>
            /\ \A j \in 1..Len(frags) :
                 (/\ token_len(inst.tokenizer, frags[j])
                        = inst.secondary.chunk_size
                  /\ strip(frags[j]) # <<>>) =>
                     \E k \in 1..Len(call.result) :
                         IsInfix(strip(frags[j]), call.result[k])

\* The first half of C19 alone: no chunk for the empty text, and never an
\* empty chunk.
RecursiveEmptyText ==
    \A c \in SecondaryCalls :
        /\ calls[c].text = <<>> => calls[c].result = <<>>
        /\ \A k \in 1..Len(calls[c].result) : calls[c].result[k] # <<>>

\* C20 -- Verbatim rejoin: cut on any separator of the recursive splitter's
\* list, a text falls into non-empty fragments of which every one after the
\* first begins with the separator, and the fragments concatenated in order
\* are the text, character for character.
VerbatimRejoin ==
    \A c \in SecondaryCalls :
        \A n \in 1..Len(inst.secondary.separators) :
            LET separator == inst.secondary.separators[n]
                frags == split_text_with_regex(calls[c].text, separator)
            IN  /\ Concat(frags) = calls[c].text
                /\ \A j \in 1..Len(frags) : frags[j] # <<>>
                /\ \A j \in 2..Len(frags) : IsPrefix(separator, frags[j])

\* The secondary has split a text on blanks into three fragments, and the
\* second and third begin with the blank.
VerbatimRejoinWitness ==
    \E c \in SecondaryCalls :
        /\ Len(TopFragments(inst.secondary, calls[c].text)) = 3
        /\ TopFragments(inst.secondary, calls[c].text)[2][1] = " "
        /\ TopFragments(inst.secondary, calls[c].text)[3] = <<" ", "a">>
        /\ Len(calls[c].result) >= 2

\* chunks are the trimmed joins, with the separator, of consecutive runs of
\* one or more of the sentences, all sentences used, in order.
RECURSIVE IsJoinOfRuns(_, _, _)
IsJoinOfRuns(chunks, sentences, separator) ==
    IF chunks = <<>> THEN sentences = <<>>
    ELSE \E n \in 1..Len(sentences) :
            /\ chunks[1] = strip(Join(SubSeq(sentences, 1, n), separator))
            /\ IsJoinOfRuns(Tail(chunks),
                            SubSeq(sentences, n + 1, Len(sentences)),
                            separator)

\* C18 -- Sentence integrity: the chunks the primary returns are, in order,
\* the joins with the blank-line separator of runs of one or more whole
\* consecutive sentences of the sentence tokenizer; every sentence is in one
\* chunk, whole, also a sentence longer than chunk_size.
SentenceIntegrity ==
    \A c \in RoutingCalls :
        IsJoinOfRuns(calls[c].main_splits,
                     sent_tokenize(calls[c].text, inst.primary.language),
                     <<NL, NL>>)

\* For a text of two or more sentences the primary has returned a chunk that
\* is the last sentence, whole, though it is longer than chunk_size.
SentenceIntegrityWitness ==
    \E c \in RoutingCalls :
        LET sentences == sent_tokenize(calls[c].text, inst.primary.language)
        IN  /\ inst.primary.chunk_size >= 1
            /\ Len(sentences) >= 2
            /\ \E j \in 1..Len(calls[c].main_splits) :
                  /\ calls[c].main_splits[j] = sentences[Len(sentences)]
                  /\ token_len(inst.tokenizer, calls[c].main_splits[j])
                        > inst.primary.chunk_size

\* ---- Termination ----

\* Mutant of RecursionDepth: a splitter that, instead of going down the
\* separator list, peels one character off the text per nested call.
RecursionDepthByLength(text, separators, chunk_size, tok) ==
    IF Len(text) = 0 THEN 1 ELSE Len(text)

\* The number of nested _split_text calls RecursiveSplitText(text, separators,
\* ...) makes, itself included: a fragment that is not below chunk_size is
\* handed to _split_text again, with the separators after the one just used.
RECURSIVE RecursionDepth(_, _, _, _)
RecursionDepth(text, separators, chunk_size, tok) ==
    LET k == SeparatorIndex(text, separators)
        separator == separators[k]
        new_separators ==
            IF separator = <<>> \/ Find(text, separator, 1) = 0
            THEN <<>>
            ELSE SubSeq(separators, k + 1, Len(separators))
        splits == split_text_with_regex(text, separator)
        deeper == {j \in 1..Len(splits) :
                     ~(token_len(tok, splits[j]) < chunk_size)}
    IN  IF new_separators = <<>> \/ deeper = {} THEN 1
        ELSE 1 + Max({RecursionDepth(splits[j], new_separators,
                                     chunk_size, tok) : j \in deeper})

\* The documents of the calls whose termination is checked: the shorter
\* documents and two on which the secondary goes down the whole separator
\* list.
LiveDocuments ==
    {d \in Documents : Len(d) < MaxLen}
        \cup { <<"a", NL, NL, ".">>, <<"a", NL, " ", "a">> }

NextLive ==
    \/ Construct
    \/ ConstructFails
    \/ \E c \in DOMAIN calls : SplitTextPrimary(c, LiveDocuments)
    \/ \E c \in DOMAIN calls : ForSplit(c)
    \/ \E c \in DOMAIN calls : FinalMerge(c)
    \/ \E c \in DOMAIN calls : Return(c)

\* A step of call c inside split_text: an iteration of the for loop or the
\* final merge.
CallStep(c) == calls[c].pc = "loop" /\ calls'[c] # calls[c]

\* split_text is straight-line code around one for loop: once called, each
\* iteration and the final merge are taken without waiting for anything. The
\* fairness condition is WF_vars(ForSplit(c) \/ FinalMerge(c)) written out:
\* one of the two is enabled exactly while the call is in the loop.
SpecLive ==
    /\ Init
    /\ [][NextLive]_vars
    /\ \A c \in {1} :
          []<>(calls[c].pc # "loop") \/ []<><<CallStep(c)>>_vars

FinalMerged ==
    {c \in MergeCalls : calls[c].pc = "merged" /\ calls[c].site = "final"}

\* The positions of the non-blank pieces among the pieces snippet j was
\* joined from.
NonBlankIn(call, j) ==
    {k \in call.windows[j].first..call.windows[j].last :
        NonBlank(call.splits[k]) # <<>>}

\* The run of pieces of snippet j, from its first to its last non-blank piece.
Run(call, j) ==
    SubSeq(call.splits, Min(NonBlankIn(call, j)), Max(NonBlankIn(call, j)))

\* C22 -- Final join: every snippet is the join, with exactly one newline
\* between adjacent pieces, of a run of consecutive pieces of the sequence
\* handed to the final merge, the text of each piece unchanged; the runs
\* follow one another in the order of the pieces without overlapping, and
\* every non-blank piece is in one of them.
FinalJoin ==
    \A c \in FinalMerged :
        LET call == calls[c]
        IN  /\ Len(call.windows) = Len(call.result)
            /\ \A j \in 1..Len(call.result) :
                 /\ NonBlankIn(call, j) # {}
                 /\ call.result[j] = Join(Run(call, j), <<NL>>)
                 /\ j > 1 => Min(NonBlankIn(call, j))
                                > Max(NonBlankIn(call, j - 1))
            /\ \A k \in 1..Len(call.splits) :
                 NonBlank(call.splits[k]) # <<>> =>
                     \E j \in 1..Len(call.result) : k \in NonBlankIn(call, j)

\* A final merge has returned two snippets, the first joined from two pieces
\* with a newline between them.
FinalJoinWitness ==
    \E c \in FinalMerged :
        /\ ContractConfig
        /\ calls[c].pass = 1
        /\ Len(calls[c].result) = 2
        /\ Len(Run(calls[c], 1)) = 2
        /\ calls[c].result[1]
             = calls[c].splits[1] \o <<NL>> \o calls[c].splits[2]

\* The snippet that non-blank piece k is in.
SnippetOf(call, k) ==
    CHOOSE j \in 1..Len(call.windows) : k \in NonBlankIn(call, j)

\* The non-blank pieces that are followed directly by a non-blank piece.
AdjacentPairs(call) ==
    {k \in 1..(Len(call.splits) - 1) :
        NonBlank(call.splits[k]) # <<>> /\ NonBlank(call.splits[k + 1]) # <<>>}

\* C23 -- Re-merge packs against the hard limit, as stated: in the final
\* merge any two adjacent pieces whose lengths plus the newline separator
\* length sum to at most hard_chunk_size_limit are in the same snippet.
AdjacentPiecesPacked ==
    \A c \in FinalMerged :
        LET call == calls[c]
        IN  \A k \in AdjacentPairs(call) :
              (token_len(inst.tokenizer, call.splits[k])
                 + token_len(inst.tokenizer, <<NL>>)
                 + token_len(inst.tokenizer, call.splits[k + 1])
                 <= inst.hard_chunk_size_limit) =>
                  SnippetOf(call, k) = SnippetOf(call, k + 1)

\* C23, amended -- the packing limit of the final merge is
\* hard_chunk_size_limit, not chunk_size: a piece is in the same snippet as
\* the piece before it exactly when the running length of that snippet up to
\* the piece before, plus the newline separator, plus the piece is at most
\* hard_chunk_size_limit. Two adjacent pieces that would fit together are
\* still separated when the pieces already packed before them leave no room.
PackedAgainstHardLimit ==
    \A c \in FinalMerged :
        LET call == calls[c]
        IN  /\ call.chunk_size = inst.hard_chunk_size_limit
            /\ \A k \in AdjacentPairs(call) :
                 (SnippetOf(call, k) = SnippetOf(call, k + 1))
                   <=> (RunningLength(
                            SubSeq(call.splits,
                                   call.windows[SnippetOf(call, k)].first, k),
                            <<NL>>, inst.tokenizer)
                          + token_len(inst.tokenizer, <<NL>>)
                          + token_len(inst.tokenizer, call.splits[k + 1])
                          <= inst.hard_chunk_size_limit)

\* A final merge has joined two pieces into a snippet longer than chunk_size
\* and within the hard limit.
PackedAgainstHardLimitWitness ==
    \E c \in FinalMerged :
        /\ ContractConfig
        /\ calls[c].pass = 1
        /\ \E j \in 1..Len(calls[c].result) :
              /\ Len(Run(calls[c], j)) >= 2
              /\ token_len(inst.tokenizer, calls[c].result[j])
                    > inst.primary.chunk_size
              /\ token_len(inst.tokenizer, calls[c].result[j])
                    <= inst.hard_chunk_size_limit

\* The positions of the pieces whose text is part of snippet j: from its first
\* to its last non-blank piece.
PiecesOf(call, j) == Min(NonBlankIn(call, j))..Max(NonBlankIn(call, j))

\* C24 -- No duplication with zero overlap: a SnippetExtractor has overlap 0
\* in its primary, its secondary and its final merge; every piece handed to
\* the final merge is part of exactly one returned snippet, and no window of
\* the final merge begins with a fragment of the window before it.
NoDuplication ==
    /\ inst.state = "ready" =>
          /\ inst.primary.chunk_overlap = 0
          /\ inst.secondary.chunk_overlap = 0
          /\ inst.chunk_overlap = 0
    /\ \A c \in FinalMerged :
          LET call == calls[c]
          IN  /\ call.chunk_overlap = 0
              /\ \A k \in 1..Len(call.splits) :
                    Cardinality({j \in 1..Len(call.windows) :
                                    k \in PiecesOf(call, j)}) = 1
              /\ \A j \in 1..(Len(call.windows) - 1) :
                    call.windows[j + 1].first > call.windows[j].last

\* No duplication on the instances whose primary chunk_size is at least 1.
NoDuplicationPositiveSize == (inst.primary.chunk_size >= 1) => NoDuplication

\* C25 -- Hard limit not below target: every constructed SnippetExtractor has
\* hard_chunk_size_limit >= chunk_size, and so no piece the secondary made of
\* a chunk routed to it is longer than hard_chunk_size_limit.
HardLimitNotBelowTarget ==
    /\ inst.state = "ready" =>
          inst.hard_chunk_size_limit >= inst.secondary.chunk_size
    /\ \A c \in RoutingCalls :
          \A r \in 1..Len(calls[c].routed) :
              LET pieces == SecondarySplitText(inst.secondary, inst.tokenizer,
                                calls[c].main_splits[calls[c].routed[r]])
              IN  \A k \in 1..Len(pieces) :
                      token_len(inst.tokenizer, pieces[k])
                          <= inst.hard_chunk_size_limit

\* The same on the instances whose chunk_size is at least 1: the hard limit
\* is still not checked against it.
HardLimitNotBelowPositiveTarget ==
    (inst.secondary.chunk_size >= 1) => HardLimitNotBelowTarget

----------------------------------------------------------------------------
\* The API test suite (discovery_engine_api_tests): the document generator of
\* model/documents/documents.py and the request builder of
\* handlers/api_handler.py.  Strings are sequences of one-character strings,
\* None is the empty tuple and a given argument v is <<v>>.

IdLen == 2
MaxAmount == 3
MaxCount == 10

None == <<>>
Some(v) == <<v>>

\* utils/test_utils.py generate_random_alphanumerical: every string of the
\* given length over the word characters, here a letter and a digit.
WordChars == {"a", "1"}
generate_random_alphanumerical(size_len) == [1..size_len -> WordChars]

\* docs_dict[key] = value on a dict kept as its list of items in insertion
\* order: an existing key keeps its place and has its value replaced.
DictSet(dict, key, value) ==
    IF \E j \in 1..Len(dict) : dict[j].key = key
    THEN [j \in 1..Len(dict) |->
              IF dict[j].key = key THEN [key |-> key, value |-> value]
              ELSE dict[j]]
    ELSE Append(dict, [key |-> key, value |-> value])

DictValues(dict) == [j \in 1..Len(dict) |-> dict[j].value]

Document(id, snippet, properties) ==
    [id |-> id, snippet |-> snippet, properties |-> properties]

IdleTest == [pc |-> "idle"]

InitTests ==
    /\ inst = NoInstance("none")
    /\ tokenizer_loads = 0
    /\ calls = <<IdleTest>>

\* generate_docs(amount), lines 22-23: the empty dict and the loop counter.
GenerateDocsCall(c) ==
    \E amount \in 0..MaxAmount :
        /\ calls[c].pc = "idle"
        /\ calls' = [calls EXCEPT ![c] =
              [pc |-> "generating", amount |-> amount, i |-> 0,
               docs_dict |-> <<>>]]
        /\ UNCHANGED <<inst, tokenizer_loads>>

\* One pass of the loop, lines 24-28.
GenerateDocsLoop(c) ==
    LET call == calls[c]
    IN  \E id \in generate_random_alphanumerical(IdLen),
           snippet \in generate_random_alphanumerical(1) :
            /\ call.pc = "generating"
            /\ call.i < call.amount
            /\ calls' = [calls EXCEPT ![c] =
                  [call EXCEPT
                      !.docs_dict =
                          DictSet(@, id,
                                  Document(id, snippet, [title |-> "Title"])),
                      !.i = @ + 1]]
            /\ UNCHANGED <<inst, tokenizer_loads>>

\* return docs_dict, line 29.
GenerateDocsReturn(c) ==
    LET call == calls[c]
    IN  /\ call.pc = "generating"
        /\ call.i = call.amount
        /\ calls' = [calls EXCEPT ![c] =
              [pc |-> "generated", amount |-> call.amount,
               docs_dict |-> call.docs_dict]]
        /\ UNCHANGED <<inst, tokenizer_loads>>

\* The tests hand list(docs.values()) to ingest_document as one batch.
IngestDocument(c) ==
    LET call == calls[c]
    IN  /\ call.pc = "generated"
        /\ calls' = [calls EXCEPT ![c] =
              [pc |-> "ingested", amount |-> call.amount,
               docs_dict |-> call.docs_dict,
               batch |-> DictValues(call.docs_dict)]]
        /\ UNCHANGED <<inst, tokenizer_loads>>

Digits == <<"0", "1", "2", "3", "4", "5", "6", "7", "8", "9">>

\* Python's str on an int: the decimal digits, a minus sign first if negative.
RECURSIVE str(_)
str(n) ==
    IF n < 0 THEN <<"-">> \o str(0 - n)
    ELSE IF n < 10 THEN <<Digits[n + 1]>>
    ELSE str(n \div 10) \o <<Digits[(n % 10) + 1]>>

PersonalizationUri == <<"h", "t", "t", "p", ":", "/", "/", "x">>

\* self.personalization_endpoint.format(user_id=user_id)
personalization_endpoint(user_id) ==
    PersonalizationUri \o <<"/", "u", "s", "e", "r", "s", "/">> \o user_id
        \o <<"/", "p", "e", "r", "s", "o", "n", "a", "l", "i", "z", "e", "d",
             "_", "d", "o", "c", "u", "m", "e", "n", "t", "s">>

CountName == <<"c", "o", "u", "n", "t", "=">>
PublishedAfterName ==
    <<"p", "u", "b", "l", "i", "s", "h", "e", "d", "_", "a", "f", "t", "e",
      "r", "=">>

\* The ids the tests pass: a generated one, or an invalid one holding one of
\* the symbols of generate_invalid_id.
UserIds == generate_random_alphanumerical(IdLen) \cup {<<"a", "&">>}
Counts == {None} \cup {Some(n) : n \in 0..MaxCount}
PublishedDates ==
    {None, Some(<<"2", "0", "2", "3", "-", "0", "5", "-", "0", "1", "T",
                  "1", "0", ":", "0", "0", ":", "0", "0">>)}

\* get_personalized_docs lines 50-55: the URL handed to send_get_request.
PersonalizedDocsUrl(user_id, count, published) ==
    LET params0 == <<>>
        params1 == IF count # None
                   THEN params0 \o <<"?">> \o CountName \o str(count[1])
                   ELSE params0
        params2 == IF published # None
                   THEN params1 \o <<"?">> \o PublishedAfterName
                            \o published[1]
                   ELSE params1
    IN  personalization_endpoint(user_id) \o params2

GetPersonalizedDocs(c) ==
    \E user_id \in UserIds, count \in Counts, published \in PublishedDates :
        /\ calls[c].pc = "idle"
        /\ calls' = [calls EXCEPT ![c] =
              [pc |-> "sent", user_id |-> user_id, count |-> count,
               published |-> published,
               url |-> PersonalizedDocsUrl(user_id, count, published)]]
        /\ UNCHANGED <<inst, tokenizer_loads>>

\* The next test starts.
TestDone(c) ==
    /\ calls[c].pc \in {"ingested", "sent"}
    /\ calls' = [calls EXCEPT ![c] = IdleTest]
    /\ UNCHANGED <<inst, tokenizer_loads>>

NextTests ==
    \E c \in {1} :
        \/ GenerateDocsCall(c)
        \/ GenerateDocsLoop(c)
        \/ GenerateDocsReturn(c)
        \/ IngestDocument(c)
        \/ GetPersonalizedDocs(c)
        \/ TestDone(c)

SpecTests == InitTests /\ [][NextTests]_vars

\* C26 -- generate_docs(amount) returns a dict of exactly amount entries,
\* each stored under its own id, and the batch built from its values has
\* amount documents, whatever ids the random generator renders.
GenerateDocsAmount ==
    \A c \in DOMAIN calls :
        /\ calls[c].pc \in {"generated", "ingested"} =>
              /\ Len(calls[c].docs_dict) = calls[c].amount
              /\ \A j \in 1..Len(calls[c].docs_dict) :
                    calls[c].docs_dict[j].value.id = calls[c].docs_dict[j].key
        /\ calls[c].pc = "ingested" =>
              Len(calls[c].batch) = calls[c].amount

\* What the loop does guarantee: at most amount entries, distinct keys, each
\* the id of its document.
GenerateDocsAtMostAmount ==
    \A c \in DOMAIN calls :
        calls[c].pc \in {"generated", "ingested"} =>
            LET dict == calls[c].docs_dict
            IN  /\ Len(dict) <= calls[c].amount
                /\ (calls[c].amount > 0) => Len(dict) >= 1
                /\ \A j, k \in 1..Len(dict) :
                      dict[j].key = dict[k].key => j = k
                /\ \A j \in 1..Len(dict) : dict[j].value.id = dict[j].key

Occurrences(text, ch) == Cardinality({i \in 1..Len(text) : text[i] = ch})

\* The parts of text between the occurrences of ch.
RECURSIVE SplitOn(_, _)
SplitOn(text, ch) ==
    IF Occurrences(text, ch) = 0 THEN <<text>>
    ELSE LET at == Min({i \in 1..Len(text) : text[i] = ch})
         IN  <<SubSeq(text, 1, at - 1)>>
                 \o SplitOn(SubSeq(text, at + 1, Len(text)), ch)

\* The path of a URL, before its first question mark, and the parameters of
\* its query string, after it.
UrlPath(url) == SplitOn(url, "?")[1]
UrlQuery(url) ==
    IF Occurrences(url, "?") = 0 THEN <<>>
    ELSE SplitOn(SubSeq(url, Len(UrlPath(url)) + 2, Len(url)), "&")

\* The parameters a call asks for.
AskedParams(call) ==
    (IF call.count # None THEN {CountName \o str(call.count[1])} ELSE {})
        \cup (IF call.published # None
              THEN {PublishedAfterName \o call.published[1]} ELSE {})

\* C27 -- get_personalized_docs builds a well-formed URL for every
\* combination of count and published: the endpoint alone when neither is
\* given, otherwise the endpoint, one question mark and exactly the given
\* parameters, separated by an ampersand when both are given.
WellFormedUrl ==
    \A c \in DOMAIN calls :
        calls[c].pc = "sent" =>
            LET call == calls[c]
                url == call.url
            IN  /\ UrlPath(url) = personalization_endpoint(call.user_id)
                /\ Occurrences(url, "?")
                      = (IF AskedParams(call) = {} THEN 0 ELSE 1)
                /\ Len(UrlQuery(url)) = Cardinality(AskedParams(call))
                /\ {UrlQuery(url)[j] : j \in 1..Len(UrlQuery(url))}
                      = AskedParams(call)

\* The URL is well formed whenever at most one of the two is given.
WellFormedUrlOneParam ==
    \A c \in DOMAIN calls :
        (/\ calls[c].pc = "sent"
         /\ (calls[c].count = None \/ calls[c].published = None))
            => WellFormedUrl

============================================================================
